---- MODULE Spec2Model ----
(***************************************************************************)
(* State-machine model of the Twitter-like data generator:                 *)
(*   business_system/app.py              TwitterApp (startup, scheduler,   *)
(*                                       shutdown)                         *)
(*   business_system/data_generator.py   DataGenerator (the cycle)         *)
(*   business_system/database_manager.py DatabaseManager (the store)       *)
(*                                                                         *)
(* The store is the three tables users, tweets and follows with their      *)
(* SERIAL sequences.  Every statement sent to the store is one step; it    *)
(* either succeeds or raises, and it always raises once the connection is  *)
(* closed.  The local computation between two statements is part of the    *)
(* step that follows it.  Columns that no statement reads back (content,   *)
(* hashtags, mentions, likes, names, bio, timestamps, and the author of a  *)
(* stored tweet) are left out of the rows.                                 *)
(***************************************************************************)
EXTENDS Integers, Sequences, FiniteSets, TLC

\* ------------------------------------------------------------- constants

\* Python's None; every id handed out by a SERIAL column is >= 1, so the
\* truth tests `if user_id:` / `if follow_id:` are tests against None.
None == 0

\* app.py:78  max_instances=1
max_instances == 1

\* database_manager.py:121  get_user_ids(self, limit=100)
limit == 100

\* data_generator.py:39-40  random.randint(0, 1000) / random.randint(0, 500)
followers_seed_max == 1000
following_seed_max == 500

\* ---------------------------------------------------------------- bounds

\* data_generator.py:23 creates `range(20)` initial users; the batch is
\* scaled down to keep the store small.
InitialUsers == 2

\* Caps on the rows each table may hold (the SERIAL sequences stop there).
MaxUsers == 2
MaxTweets == 2
MaxFollows == 1

\* Users already in the store when the process starts (an earlier run).
MaxStoredUsers == 1

\* Ticks the interval trigger delivers in a counted run.
MaxTicks == 2

\* Ids the cache holds when the mentions of a tweet are generated.
MaxCache == 3

VARIABLES
    \* TwitterApp
    main,          \* where the main thread is (app.py start/initialize/shutdown)
    sched,         \* BlockingScheduler: "new", "running", "shutdown"
    running,       \* instances of the job twitter_data_insert in progress
    \* DatabaseManager
    conn,          \* self.connection: "none", "open", "closed"
    tables,        \* tables that exist in the store
    users,         \* users table: user_id -> [followers_count, following_count]
    tweets,        \* tweets table: set of [tweet_id, reply_to_tweet_id]
    follows,       \* follows table: set of [follow_id, follower_id, following_id]
    user_seq,      \* next value of users.user_id
    tweet_seq,     \* next value of tweets.tweet_id
    follow_seq,    \* next value of follows.follow_id
    \* DataGenerator
    pc,            \* the statement the generator code is about to issue
    kind,          \* who runs the generator code: "startup", "tweet", "follow"
    attempt,       \* iterations done of `for _ in range(20)`
    user_ids,      \* self.user_ids
    tweet_data,    \* payload of generate_tweet_data
    follow_data,   \* payload of generate_follow_data
    \* history (read by the properties only)
    seed,          \* counters each user row was inserted with
    counted,       \* follow_ids whose two counter updates were both applied
    cyc,           \* what the current / last cycle has done
    outcome,       \* how the last cycle left insert_random_data
    boot,          \* what the current / last load_or_create_users has done
    setup,         \* how connect() and init_database() ended in initialize
    torn,          \* counter updates that raised: [follow_id, column]
    count          \* ticks delivered and cycles started, as CountedTick counts

vars == <<main, sched, running, conn, tables, users, tweets, follows,
          user_seq, tweet_seq, follow_seq, pc, kind, attempt, user_ids,
          tweet_data, follow_data, seed, counted, cyc, outcome, boot,
          setup, torn, count>>

store == <<tables, users, tweets, follows, user_seq, tweet_seq, follow_seq>>
hist  == <<seed, counted, torn>>

\* --------------------------------------------------------------- helpers

Min(a, b) == IF a < b THEN a ELSE b

Range(s) == {s[n] : n \in DOMAIN s}

\* The elements of a finite set of integers in ascending order.
RECURSIVE Ascending(_)
Ascending(S) ==
    IF S = {} THEN <<>>
    ELSE LET lo == CHOOSE x \in S : \A y \in S : x <= y
         IN  <<lo>> \o Ascending(S \ {lo})

UserRow(fc, gc) == [followers_count |-> fc, following_count |-> gc]

AllTables == {"users", "tweets", "follows"}

\* at_generation and lookup are history: the tweets stored when the payload
\* was generated, and what became of the call of get_random_tweet_id
\* ("skipped" when the reply branch was not taken).
NoTweet  == [user_id |-> None, reply_to_tweet_id |-> None,
             at_generation |-> {}, lookup |-> "skipped"]
NoFollow == [follower_id |-> None, following_id |-> None]

NoCycle == [ins_users |-> 0, ins_tweets |-> 0, ins_follows |-> 0,
            updates |-> 0, follow_insert_tried |-> FALSE,
            pair_present |-> FALSE, check_failed |-> FALSE]

NoBoot == [store_empty |-> FALSE, load_failed |-> FALSE, created |-> {},
           failed |-> 0, done |-> FALSE]

\* Neither connect() nor init_database() has been called; `answered` is the
\* number of CREATE statements the store executed in init_database.
NoSetup == [connect |-> "none", init_database |-> "none", answered |-> 0]

NoCount == [idle |-> 0, busy |-> 0, started |-> 0]

\* A statement can succeed only on an open connection (execute_query,
\* database_manager.py:48-65, raises whatever the cursor raises).
Answers == IF conn = "open" THEN BOOLEAN ELSE {FALSE}

\* ------------------------------------------------------------ exceptions

\* What the code can raise: a storage error out of execute_query (which
\* logs and re-raises, database_manager.py:63-65), IndexError out of
\* random.choice on an empty list, ValueError out of random.sample.
Raised == {"StorageError", "IndexError", "ValueError"}

\* The functions of the generator whose whole body is `try: ... except
\* Exception as e: logging.error(...)`, and those of app.py around the
\* start-up (initialize, app.py:65-67; start, app.py:102-105).
Handlers == {"get_user_ids", "get_random_tweet_id", "check_follow_exists",
             "create_user", "load_or_create_users", "insert_tweet",
             "insert_follow", "insert_random_data", "initialize", "start"}

\* Handlers that catch the storage errors only.
CatchesStorageOnly(f, e) == f \in Handlers /\ e = "StorageError"

\* `except Exception` catches every class in Raised.
Catches(f, e) == f \in Handlers /\ e \in Raised

\* The frames with a handler around the statements of a cycle, or of the
\* start-up, innermost first (generate_tweet_data and generate_follow_data
\* have no handler of their own).
Outer(k) ==
    CASE k = "tweet"  -> <<"insert_tweet", "insert_random_data">>
      [] k = "follow" -> <<"insert_follow", "insert_random_data">>
      [] OTHER        -> <<"initialize", "start">>

Loader(k) == <<"load_or_create_users">> \o Outer(k)

\* The frame whose handler an exception raised under `frames` reaches, or
\* "unhandled" when it leaves the outermost frame.
RECURSIVE Landing(_, _)
Landing(frames, e) ==
    IF frames = <<>> THEN "unhandled"
    ELSE IF Catches(Head(frames), e) THEN Head(frames)
    ELSE Landing(Tail(frames), e)

\* ----------------------------------------------------------- the store

\* The counters create_user draws for a new row, lines 39-40: the two ends
\* of random.randint(0, 1000) x random.randint(0, 500).
Seeds == {UserRow(0, 0), UserRow(followers_seed_max, following_seed_max)}

TweetIds == {t.tweet_id : t \in tweets}

\* get_user_ids whose rows are added to the cache in place of replacing it
\* (self.user_ids += ... for the assignment of line 17).
get_user_ids_extending(ok) ==
    IF ok
    THEN LET s == Ascending(DOMAIN users)
         IN  user_ids \o SubSeq(s, 1, Min(limit, Len(s)))
    ELSE <<>>

\* get_user_ids: the ids of up to `limit` rows, [] when the query raises.
\* The rows come back in insertion order; the order is never looked at
\* (random.choice and random.sample treat all positions alike).
get_user_ids(ok) ==
    IF ok
    THEN LET s == Ascending(DOMAIN users) IN SubSeq(s, 1, Min(limit, Len(s)))
    ELSE <<>>

\* get_random_tweet_id drawing a number up to the sequence's next value in
\* place of the id of a stored row.
get_random_tweet_id_guess(ok) ==
    IF ok THEN 1..tweet_seq ELSE {None}

\* get_random_tweet_id returning -1 where the source returns None.
get_random_tweet_id_sentinel(ok) ==
    IF ok /\ tweets # {} THEN TweetIds ELSE {-1}

\* get_random_tweet_id: the id of some row of tweets, None when there is
\* none or when the query raises.
get_random_tweet_id(ok) ==
    IF ok /\ tweets # {} THEN TweetIds ELSE {None}

\* check_follow_exists with the two ids bound to the wrong columns.
check_follow_exists_swapped(ok, a, b) ==
    IF ok
    THEN \E f \in follows : f.follower_id = b /\ f.following_id = a
    ELSE TRUE

\* check_follow_exists whose handler answers False.
check_follow_exists_optimistic(ok, a, b) ==
    IF ok
    THEN \E f \in follows : f.follower_id = a /\ f.following_id = b
    ELSE FALSE

\* check_follow_exists: whether the pair has a row, True when the query
\* raises.
check_follow_exists(ok, a, b) ==
    IF ok
    THEN \E f \in follows : f.follower_id = a /\ f.following_id = b
    ELSE TRUE

\* create_user whose handler returns the id the row would have had, in
\* place of None.
create_user_guessing(ok, row) ==
    LET done == ok /\ user_seq <= MaxUsers
    IN  [user_id  |-> user_seq,
         users    |-> IF done THEN users @@ (user_seq :> row) ELSE users,
         user_seq |-> IF done THEN user_seq + 1 ELSE user_seq]

\* INSERT INTO users ... RETURNING user_id, as create_user issues it with
\* the counters `row`: the returned id (None when the statement raised and
\* create_user caught it), the table and the sequence afterwards.  The
\* statement raises on a storage error and on a collision of the generated
\* username or email with a stored one.
create_user(ok, row) ==
    LET done == ok /\ user_seq <= MaxUsers
    IN  [user_id  |-> IF done THEN user_seq ELSE None,
         users    |-> IF done THEN users @@ (user_seq :> row) ELSE users,
         user_seq |-> IF done THEN user_seq + 1 ELSE user_seq]

\* The append without its `if user_id:` test.
AppendedUntested(ids, id) == Append(ids, id)

\* `if user_id: self.user_ids.append(user_id)` (lines 25-26, 67-68, 111-112)
Appended(ids, id) == IF id # None THEN Append(ids, id) ELSE ids

\* The constraints of the tweets table (database_manager.py:96-97).
TweetConstraints(t) ==
    /\ t.user_id \in DOMAIN users
    /\ t.reply_to_tweet_id = None \/ t.reply_to_tweet_id \in TweetIds

\* The constraints of the follows table (database_manager.py:108-111).
FollowConstraints(a, b) ==
    /\ a \in DOMAIN users
    /\ b \in DOMAIN users
    /\ ~ \E f \in follows : f.follower_id = a /\ f.following_id = b
    /\ a # b

\* k independent draws (random.choice k times) in place of random.sample.
SampleWithReplacement(xs, k) == [1..k -> Range(xs)]

\* random.sample(xs, k): the elements at k distinct positions, in any order.
Sample(xs, k) ==
    {[n \in 1..k |-> xs[f[n]]] :
        f \in {g \in [1..k -> DOMAIN xs] :
                  \A a, b \in 1..k : a # b => g[a] # g[b]}}

\* f"@user_{uid}"
Token(uid) == <<"@user_", uid>>

\* The mentions without the `if uid != user_id` of line 82.
mentions_unfiltered(xs, author) ==
    {[n \in DOMAIN q |-> Token(q[n])] :
        q \in Sample(xs, Min(2, Len(xs)))}

\* Lines 81-82: the lists `mentions` can be for the cache xs and the author
\* already chosen: random.sample(xs, min(2, len(xs))), the author dropped,
\* a token for each id that is left.
mentions(xs, author) ==
    {LET mention_users == SelectSeq(q, LAMBDA uid : uid # author)
     IN  [n \in DOMAIN mention_users |-> Token(mention_users[n])] :
        q \in Sample(xs, Min(2, Len(xs)))}

\* ----------------------------------------------------------------- init

\* The process starts at TwitterApp.start() with nothing connected.  The
\* store is either fresh or holds the users of an earlier run.
Init ==
    /\ main = "connect"
    /\ sched = "new"
    /\ running = 0
    /\ conn = "none"
    /\ \E n \in 0..MaxStoredUsers :
          /\ tables = IF n = 0 THEN {} ELSE AllTables
          /\ users \in [1..n -> Seeds]
          /\ user_seq = n + 1
    /\ seed = users
    /\ tweets = {}
    /\ follows = {}
    /\ tweet_seq = 1
    /\ follow_seq = 1
    /\ pc = "none"
    /\ kind = "none"
    /\ attempt = 0
    /\ user_ids = <<>>
    /\ tweet_data = NoTweet
    /\ follow_data = NoFollow
    /\ counted = {}
    /\ cyc = NoCycle
    /\ outcome = "none"
    /\ boot = NoBoot
    /\ setup = NoSetup
    /\ torn = {}
    /\ count = NoCount

\* -------------------------------------------------------- control flow

\* The end of a cycle under a scheduler that queues the ticks it could not
\* submit: the job is run again for a tick that arrived meanwhile.
EndCycleQueued(how) ==
    /\ pc' = IF count.busy > 0
             THEN (IF kind = "tweet" THEN "tweet_new_user"
                   ELSE "follow_new_user")
             ELSE "none"
    /\ running' = IF count.busy > 0 THEN running ELSE running - 1
    /\ outcome' = how
    /\ UNCHANGED main

\* insert_random_data is left: normally ("returned") or by an exception
\* ("raised"); the job instance is over and its locals are gone.
EndCycle(how) ==
    /\ pc' = "none"
    /\ running' = running - 1
    /\ outcome' = how
    /\ UNCHANGED main

\* load_or_create_users returns to its caller: initialize (app.py:60-63),
\* generate_tweet_data (line 62) or generate_follow_data (line 106).
AfterLoad ==
    CASE kind = "startup" ->
            /\ pc' = "none"
            /\ main' = "setup_scheduler"
            /\ UNCHANGED <<running, outcome>>
      [] kind = "tweet" ->
            /\ pc' = "tweet_new_user"
            /\ UNCHANGED <<main, running, outcome>>
      [] OTHER ->
            /\ pc' = "follow_new_user"
            /\ UNCHANGED <<main, running, outcome>>

\* Handlers of insert_tweet and insert_follow that try the statement again
\* in place of giving the cycle up.
UnwindRetrying(h) ==
    CASE h = "load_or_create_users" -> AfterLoad
      [] h \in {"insert_tweet", "insert_follow"} ->
            UNCHANGED <<pc, main, running, outcome>>
      [] h = "insert_random_data" ->
            EndCycle("returned")
      [] h = "initialize" ->
            /\ pc' = "none"
            /\ main' = "exited"
            /\ UNCHANGED <<running, outcome>>
      [] h = "start" ->
            /\ pc' = "none"
            /\ main' = "disconnect"
            /\ UNCHANGED <<running, outcome>>
      [] OTHER ->
            IF kind = "startup"
            THEN /\ pc' = "none"
                 /\ main' = "exited"
                 /\ UNCHANGED <<running, outcome>>
            ELSE EndCycle("raised")

\* Control after an exception reached the handler of frame h (h is not the
\* function that issued the statement; that case is local to each step).
Unwind(h) ==
    CASE h = "load_or_create_users" -> AfterLoad
      [] h \in {"insert_tweet", "insert_follow", "insert_random_data"} ->
            EndCycle("returned")
      [] h = "initialize" ->              \* returns False; start returns False
            /\ pc' = "none"
            /\ main' = "exited"
            /\ UNCHANGED <<running, outcome>>
      [] h = "start" ->                   \* start calls shutdown; the
            /\ pc' = "none"               \* scheduler is not running yet
            /\ main' = "disconnect"
            /\ UNCHANGED <<running, outcome>>
      [] OTHER ->                         \* "unhandled"
            IF kind = "startup"
            THEN /\ pc' = "none"
                 /\ main' = "exited"
                 /\ UNCHANGED <<running, outcome>>
            ELSE EndCycle("raised")

control == <<pc, main, running, outcome>>

\* The locals of a cycle die with it.
Locals(ended, td, fd) ==
    /\ tweet_data' = IF ended THEN NoTweet ELSE td
    /\ follow_data' = IF ended THEN NoFollow ELSE fd

\* -------------------------------------------------------------- startup

\* initialize: self.db_manager.connect()
Connect ==
    /\ main = "connect"
    /\ \E ok \in BOOLEAN :
          /\ IF ok
             THEN conn' = "open" /\ main' = "init_database"
             ELSE conn' = conn /\ main' = "exited"
          /\ setup' = [setup EXCEPT
                          !.connect = IF ok THEN "ok" ELSE "raised"]
    /\ UNCHANGED <<sched, running, store, pc, kind, attempt, user_ids,
                   tweet_data, follow_data, hist, cyc, outcome, boot, count>>

\* The tables in the order init_database creates them.
CreateOrder == <<"users", "tweets", "follows">>

\* init_database with CREATE TABLE in place of CREATE TABLE IF NOT EXISTS:
\* the statement for a table that exists raises.
init_database_create(ts, n) ==
    LET clash == {m \in 1..n : CreateOrder[m] \in ts}
        done  == IF clash = {} THEN n
                 ELSE (CHOOSE m \in clash : \A k \in clash : m <= k) - 1
    IN  [tables |-> ts \cup {CreateOrder[m] : m \in 1..done},
         raised |-> done < Len(CreateOrder)]

\* init_database on a store with the tables ts, where the store executes
\* the first n statements and fails the next one, if any: CREATE TABLE IF
\* NOT EXISTS adds the table when it is absent and does nothing otherwise;
\* the failure is logged and re-raised (lines 117-119).
init_database(ts, n) ==
    [tables |-> ts \cup {CreateOrder[m] : m \in 1..n},
     raised |-> n < Len(CreateOrder)]

\* initialize that goes on to load the users whatever init_database did.
InitDatabaseUnchecked ==
    /\ main = "init_database"
    /\ \E n \in 0..Len(CreateOrder) :
          LET r == init_database(tables, n)
          IN  /\ tables' = r.tables
              /\ setup' = [setup EXCEPT
                              !.init_database = IF r.raised THEN "raised"
                                                ELSE "ok",
                              !.answered = n]
              /\ main' = "load_users" /\ pc' = "get_user_ids"
              /\ kind' = "startup"
    /\ UNCHANGED <<sched, running, conn, users, tweets, follows, user_seq,
                   tweet_seq, follow_seq, attempt, user_ids, tweet_data,
                   follow_data, hist, cyc, outcome, boot, count>>

\* initialize: self.db_manager.init_database(); when it raises, initialize
\* returns False and start returns (app.py:65-67, 90-92).
InitDatabase ==
    /\ main = "init_database"
    /\ \E n \in 0..Len(CreateOrder) :
          LET r == init_database(tables, n)
          IN  /\ tables' = r.tables
              /\ setup' = [setup EXCEPT
                              !.init_database = IF r.raised THEN "raised"
                                                ELSE "ok",
                              !.answered = n]
              /\ IF ~r.raised
                 THEN main' = "load_users" /\ pc' = "get_user_ids"
                      /\ kind' = "startup"
                 ELSE main' = "exited" /\ pc' = pc /\ kind' = kind
    /\ UNCHANGED <<sched, running, conn, users, tweets, follows, user_seq,
                   tweet_seq, follow_seq, attempt, user_ids, tweet_data,
                   follow_data, hist, cyc, outcome, boot, count>>

\* start: setup_scheduler() and self.scheduler.start()
SetupScheduler ==
    /\ main = "setup_scheduler"
    /\ sched' = "running"
    /\ main' = "scheduler_loop"
    /\ UNCHANGED <<running, conn, store, pc, kind, attempt, user_ids,
                   tweet_data, follow_data, hist, cyc, outcome, boot>>
    /\ UNCHANGED <<setup, count>>

\* ---------------------------------------------- load_or_create_users

\* self.user_ids = self.db_manager.get_user_ids(), then the test of line 19.
GetUserIds ==
    /\ pc = "get_user_ids"
    /\ \E ok \in Answers :
          LET h == Landing(<<"get_user_ids">> \o Loader(kind), "StorageError")
          IN  IF ok \/ h = "get_user_ids"
              THEN LET ids == get_user_ids(ok) IN
                      /\ user_ids' = ids
                      /\ attempt' = 0
                      /\ boot' = [store_empty |-> DOMAIN users = {},
                                  load_failed |-> ~ok,
                                  created     |-> {},
                                  failed      |-> 0,
                                  done        |-> ids # <<>>]
                      /\ IF ids # <<>>
                         THEN AfterLoad
                         ELSE pc' = "bootstrap"
                              /\ UNCHANGED <<main, running, outcome>>
              ELSE Unwind(h) /\ UNCHANGED <<user_ids, attempt, boot>>
    /\ Locals(pc' = "none", tweet_data, follow_data)
    /\ UNCHANGED <<sched, conn, store, kind, hist, cyc>>
    /\ UNCHANGED <<setup, count>>

\* One iteration of `for _ in range(20)`: create_user and the append.
Bootstrap ==
    /\ pc = "bootstrap"
    /\ \E ok \in Answers, row \in Seeds :
          LET r == create_user(ok, row)
              h == Landing(<<"create_user">> \o Loader(kind), "StorageError")
              made == r.user_id # None
          IN  /\ users' = r.users
              /\ user_seq' = r.user_seq
              /\ seed' = IF made THEN seed @@ (r.user_id :> row)
                         ELSE seed
              /\ cyc' = IF made /\ kind # "startup"
                        THEN [cyc EXCEPT !.ins_users = @ + 1] ELSE cyc
              /\ IF made \/ h = "create_user"
                 THEN /\ user_ids' = Appended(user_ids, r.user_id)
                      /\ attempt' = IF attempt + 1 < InitialUsers
                                    THEN attempt + 1 ELSE 0
                      /\ boot' = [boot EXCEPT
                                    !.created = IF made THEN @ \cup {r.user_id}
                                                ELSE @,
                                    !.failed = IF made THEN @ ELSE @ + 1,
                                    !.done = (attempt + 1 = InitialUsers)]
                      /\ IF attempt + 1 < InitialUsers
                         THEN UNCHANGED control
                         ELSE AfterLoad
                 ELSE Unwind(h) /\ UNCHANGED <<user_ids, attempt, boot>>
    /\ Locals(pc' = "none", tweet_data, follow_data)
    /\ UNCHANGED <<sched, conn, tables, tweets, follows, tweet_seq,
                   follow_seq, kind, counted, setup, torn, count>>

\* ------------------------------------------------------------ scheduler

\* The scheduler submits the job of a tick unless max_instances instances
\* of it are running (add_job(..., max_instances=1), app.py:72-79).
CanSubmitOffByOne(n) == n <= max_instances

CanSubmit(n) == n < max_instances

\* A tick of the interval trigger; a tick whose job cannot be submitted is
\* skipped.  The submitted job is insert_random_data: it picks the kind of
\* the cycle (line 189) and enters generate_tweet_data or
\* generate_follow_data, whose first test decides whether to load users.
Deliver ==
    /\ main = "scheduler_loop"
    /\ sched = "running"
    /\ IF CanSubmit(running)
       THEN /\ running' = running + 1
            /\ \E k \in {"tweet", "follow"} :
                  /\ kind' = k
                  /\ pc' = IF k = "tweet"
                           THEN (IF user_ids = <<>> THEN "get_user_ids"
                                 ELSE "tweet_new_user")
                           ELSE (IF Len(user_ids) < 2 THEN "get_user_ids"
                                 ELSE "follow_new_user")
            /\ cyc' = NoCycle
            /\ boot' = NoBoot
            /\ outcome' = "none"
            /\ tweet_data' = NoTweet
            /\ follow_data' = NoFollow
       ELSE UNCHANGED <<running, kind, pc, cyc, boot, outcome, tweet_data,
                        follow_data>>
    /\ UNCHANGED <<main, sched, conn, store, attempt, user_ids, hist, setup>>

\* A tick, uncounted.
Tick == Deliver /\ UNCHANGED count

\* A tick, counted: as delivered with the slot idle or busy, and as having
\* started a cycle when the number of running instances went up.
CountedTick ==
    /\ count.idle + count.busy < MaxTicks
    /\ Deliver
    /\ count' = [idle    |-> count.idle + (IF running = 0 THEN 1 ELSE 0),
                 busy    |-> count.busy + (IF running = 0 THEN 0 ELSE 1),
                 started |-> count.started +
                                (IF running' > running THEN 1 ELSE 0)]

\* ---------------------------------------------------------- the cycle

\* `if random.random() < p: new_user_id = self.create_user(); ...append`
\* (lines 65-68 and 109-112), then on to `next`.
MaybeCreateUser(next) ==
    /\ \E take \in BOOLEAN, ok \in Answers, row \in Seeds :
          LET r == create_user(ok, row)
              h == Landing(<<"create_user">> \o Outer(kind), "StorageError")
              made == take /\ r.user_id # None
          IN  /\ users' = IF take THEN r.users ELSE users
              /\ user_seq' = IF take THEN r.user_seq ELSE user_seq
              /\ seed' = IF made THEN seed @@ (r.user_id :> row)
                         ELSE seed
              /\ cyc' = IF made THEN [cyc EXCEPT !.ins_users = @ + 1] ELSE cyc
              /\ IF ~take \/ made \/ h = "create_user"
                 THEN /\ user_ids' = IF take THEN Appended(user_ids, r.user_id)
                                     ELSE user_ids
                      /\ pc' = next
                      /\ UNCHANGED <<main, running, outcome>>
                 ELSE Unwind(h) /\ UNCHANGED user_ids
    /\ Locals(pc' = "none", tweet_data, follow_data)
    /\ UNCHANGED <<sched, conn, tables, tweets, follows, tweet_seq,
                   follow_seq, kind, attempt, counted, boot, setup, torn,
                   count>>

TweetNewUser == pc = "tweet_new_user" /\ MaybeCreateUser("tweet_build")

FollowNewUser == pc = "follow_new_user" /\ MaybeCreateUser("follow_sample")

\* generate_tweet_data from line 70 on: the author and, for a reply, the
\* target that get_random_tweet_id returns.
TweetBuild ==
    /\ pc = "tweet_build"
    /\ IF user_ids = <<>>
       THEN /\ Unwind(Landing(Outer(kind), "IndexError"))
            /\ Locals(pc' = "none", tweet_data, follow_data)
       ELSE \E a \in DOMAIN user_ids, reply \in BOOLEAN, ok \in Answers :
               LET h == Landing(<<"get_random_tweet_id">> \o Outer(kind),
                                "StorageError")
               IN  IF ~reply \/ ok \/ h = "get_random_tweet_id"
                   THEN \E t \in IF reply THEN get_random_tweet_id(ok)
                                 ELSE {None} :
                           /\ tweet_data' =
                                 [user_id           |-> user_ids[a],
                                  reply_to_tweet_id |-> t,
                                  at_generation     |-> TweetIds,
                                  lookup            |->
                                      IF ~reply THEN "skipped"
                                      ELSE IF ok THEN "answered"
                                      ELSE "raised"]
                           /\ follow_data' = follow_data
                           /\ pc' = "tweet_insert"
                           /\ UNCHANGED <<main, running, outcome>>
                   ELSE /\ Unwind(h)
                        /\ Locals(pc' = "none", tweet_data, follow_data)
    /\ UNCHANGED <<sched, conn, store, kind, attempt, user_ids, hist, cyc,
                   boot>>
    /\ UNCHANGED <<setup, count>>

\* insert_random_data with a second `if` in place of its `else`: after the
\* tweet it goes on into insert_follow.
TweetDoneFallsThrough ==
    /\ pc' = IF Len(user_ids) < 2 THEN "get_user_ids" ELSE "follow_new_user"
    /\ UNCHANGED <<main, running, outcome>>

\* insert_tweet has returned: the `if` branch of insert_random_data (lines
\* 189-192) is over, and so is the cycle.
TweetDone == EndCycle("returned")

\* insert_tweet: INSERT INTO tweets ... RETURNING tweet_id
TweetInsert ==
    /\ pc = "tweet_insert"
    /\ \E ok \in Answers :
          LET done == ok /\ tweet_seq <= MaxTweets
                         /\ TweetConstraints(tweet_data)
          IN  /\ tweets' = IF done
                           THEN tweets \cup
                                {[tweet_id |-> tweet_seq,
                                  reply_to_tweet_id |->
                                      tweet_data.reply_to_tweet_id]}
                           ELSE tweets
              /\ tweet_seq' = IF done THEN tweet_seq + 1 ELSE tweet_seq
              /\ cyc' = IF done THEN [cyc EXCEPT !.ins_tweets = @ + 1]
                        ELSE cyc
              /\ IF done THEN TweetDone
                 ELSE Unwind(Landing(Outer(kind), "StorageError"))
    /\ Locals(pc' = "none", tweet_data, follow_data)
    /\ UNCHANGED <<sched, conn, tables, users, follows, user_seq,
                   follow_seq, kind, attempt, user_ids, hist, boot>>
    /\ UNCHANGED <<setup, count>>

\* generate_follow_data line 115: random.sample(self.user_ids, 2)
FollowSample ==
    /\ pc = "follow_sample"
    /\ IF Len(user_ids) < 2
       THEN /\ Unwind(Landing(Outer(kind), "ValueError"))
            /\ Locals(pc' = "none", tweet_data, follow_data)
       ELSE \E p \in Sample(user_ids, 2) :
               /\ follow_data' = [follower_id |-> p[1], following_id |-> p[2]]
               /\ tweet_data' = tweet_data
               /\ pc' = "follow_check"
               /\ UNCHANGED <<main, running, outcome>>
    /\ UNCHANGED <<sched, conn, store, kind, attempt, user_ids, hist, cyc,
                   boot>>
    /\ UNCHANGED <<setup, count>>

\* insert_follow lines 154-159: the existence check and the early return.
FollowCheck ==
    /\ pc = "follow_check"
    /\ \E ok \in Answers :
          LET a == follow_data.follower_id
              b == follow_data.following_id
              h == Landing(<<"check_follow_exists">> \o Outer(kind),
                           "StorageError")
          IN  /\ cyc' = [cyc EXCEPT
                           !.pair_present =
                               \E f \in follows : /\ f.follower_id = a
                                                  /\ f.following_id = b,
                           !.check_failed = ~ok]
              /\ IF ok \/ h = "check_follow_exists"
                 THEN IF check_follow_exists(ok, a, b)
                      THEN EndCycle("returned")
                      ELSE pc' = "follow_insert"
                           /\ UNCHANGED <<main, running, outcome>>
                 ELSE Unwind(h)
    /\ Locals(pc' = "none", tweet_data, follow_data)
    /\ UNCHANGED <<sched, conn, store, kind, attempt, user_ids, hist, boot>>
    /\ UNCHANGED <<setup, count>>

\* insert_follow lines 161-168: INSERT INTO follows ... RETURNING follow_id
FollowInsert ==
    /\ pc = "follow_insert"
    /\ \E ok \in Answers :
          LET a == follow_data.follower_id
              b == follow_data.following_id
              done == ok /\ follow_seq <= MaxFollows /\ FollowConstraints(a, b)
          IN  /\ follows' = IF done
                            THEN follows \cup
                                 {[follow_id |-> follow_seq,
                                   follower_id |-> a, following_id |-> b]}
                            ELSE follows
              /\ follow_seq' = IF done THEN follow_seq + 1 ELSE follow_seq
              /\ cyc' = [cyc EXCEPT
                           !.follow_insert_tried = TRUE,
                           !.ins_follows = IF done THEN @ + 1 ELSE @]
              /\ IF done
                 THEN pc' = "update_following"
                      /\ UNCHANGED <<main, running, outcome>>
                 ELSE Unwind(Landing(Outer(kind), "StorageError"))
    /\ Locals(pc' = "none", tweet_data, follow_data)
    /\ UNCHANGED <<sched, conn, tables, users, tweets, user_seq, tweet_seq,
                   kind, attempt, user_ids, hist, boot>>
    /\ UNCHANGED <<setup, count>>

\* An UPDATE that adds 1 to both counters of the row.
IncrementBoth(column, u) ==
    IF u \in DOMAIN users
    THEN [users EXCEPT ![u] = [followers_count |-> @.followers_count + 1,
                               following_count |-> @.following_count + 1]]
    ELSE users

\* The UPDATE of line 175 with the column of line 171.
IncrementFollowingOnly(column, u) ==
    IF u \in DOMAIN users
    THEN [users EXCEPT ![u] = [@ EXCEPT !.following_count = @ + 1]]
    ELSE users

\* The UPDATE without its WHERE clause.
IncrementEveryUser(column, u) ==
    [v \in DOMAIN users |->
        IF column = "following_count"
        THEN [users[v] EXCEPT !.following_count = @ + 1]
        ELSE [users[v] EXCEPT !.followers_count = @ + 1]]

\* UPDATE users SET <column> = <column> + 1 WHERE user_id = u
Increment(column, u) ==
    IF u \in DOMAIN users
    THEN [users EXCEPT ![u] =
            IF column = "following_count"
            THEN [@ EXCEPT !.following_count = @ + 1]
            ELSE [@ EXCEPT !.followers_count = @ + 1]]
    ELSE users

\* The row the cycle has just inserted (the pair is unique in follows).
InsertedFollow ==
    CHOOSE f \in follows : /\ f.follower_id = follow_data.follower_id
                           /\ f.following_id = follow_data.following_id

\* insert_follow lines 170-173: following_count of the follower
UpdateFollowing ==
    /\ pc = "update_following"
    /\ \E ok \in Answers :
          /\ IF ok
             THEN /\ users' = Increment("following_count",
                                        follow_data.follower_id)
                  /\ cyc' = [cyc EXCEPT !.updates = @ + 1]
                  /\ pc' = "update_followers"
                  /\ UNCHANGED <<main, running, outcome>>
             ELSE /\ UNCHANGED <<users, cyc>>
                  /\ Unwind(Landing(Outer(kind), "StorageError"))
          /\ torn' = IF ok THEN torn
                     ELSE torn \cup {[follow_id |-> InsertedFollow.follow_id,
                                      column |-> "following_count"]}
    /\ Locals(pc' = "none", tweet_data, follow_data)
    /\ UNCHANGED <<sched, conn, tables, tweets, follows, user_seq, tweet_seq,
                   follow_seq, kind, attempt, user_ids, seed, counted, boot,
                   setup, count>>

\* insert_follow lines 175-180: followers_count of the followee
UpdateFollowers ==
    /\ pc = "update_followers"
    /\ \E ok \in Answers :
          /\ IF ok
             THEN /\ users' = Increment("followers_count",
                                        follow_data.following_id)
                  /\ cyc' = [cyc EXCEPT !.updates = @ + 1]
                  /\ counted' = counted \cup {InsertedFollow.follow_id}
                  /\ EndCycle("returned")
             ELSE /\ UNCHANGED <<users, cyc, counted>>
                  /\ Unwind(Landing(Outer(kind), "StorageError"))
          /\ torn' = IF ok THEN torn
                     ELSE torn \cup {[follow_id |-> InsertedFollow.follow_id,
                                      column |-> "followers_count"]}
    /\ Locals(pc' = "none", tweet_data, follow_data)
    /\ UNCHANGED <<sched, conn, tables, tweets, follows, user_seq, tweet_seq,
                   follow_seq, kind, attempt, user_ids, seed, boot, setup,
                   count>>

\* ------------------------------------------------------------- shutdown

\* shutdown without lines 112-114: the connection is closed while the
\* scheduler is left running.
SignalWithoutStop ==
    /\ main \in {"connect", "init_database", "load_users",
                 "setup_scheduler", "scheduler_loop"}
    /\ main' = "disconnect"
    /\ pc' = IF main = "load_users" THEN "none" ELSE pc
    /\ attempt' = IF main = "load_users" THEN 0 ELSE attempt
    /\ UNCHANGED <<sched, running, conn, store, kind, user_ids, tweet_data,
                   follow_data, hist, cyc, outcome, boot>>
    /\ UNCHANGED <<setup, count>>

\* SIGINT or SIGTERM: _signal_handler runs in the main thread, in place of
\* whatever the main thread was doing (the start-up, or the scheduler's
\* loop), and calls shutdown, whose first step is lines 112-114:
\* self.scheduler.shutdown(wait=False) if the scheduler is running.  A
\* cycle runs in the scheduler's worker thread and goes on.
Signal ==
    /\ main \in {"connect", "init_database", "load_users",
                 "setup_scheduler", "scheduler_loop"}
    /\ main' = "disconnect"
    /\ sched' = IF sched = "running" THEN "shutdown" ELSE sched
    /\ pc' = IF main = "load_users" THEN "none" ELSE pc
    /\ attempt' = IF main = "load_users" THEN 0 ELSE attempt
    /\ UNCHANGED <<running, conn, store, kind, user_ids, tweet_data,
                   follow_data, hist, cyc, outcome, boot>>
    /\ UNCHANGED <<setup, count>>

\* shutdown line 116: self.db_manager.disconnect(); the process then exits
\* (sys.exit(0) in _signal_handler, the return of start otherwise).
Disconnect ==
    /\ main = "disconnect"
    /\ conn' = IF conn # "none" THEN "closed" ELSE conn
    /\ main' = "exited"
    /\ UNCHANGED <<sched, running, store, pc, kind, attempt, user_ids,
                   tweet_data, follow_data, hist, cyc, outcome, boot>>
    /\ UNCHANGED <<setup, count>>

\* ----------------------------------------------------------------- spec

Next ==
    \/ Connect
    \/ InitDatabase
    \/ SetupScheduler
    \/ GetUserIds
    \/ Bootstrap
    \/ Tick
    \/ TweetNewUser
    \/ FollowNewUser
    \/ TweetBuild
    \/ TweetInsert
    \/ FollowSample
    \/ FollowCheck
    \/ FollowInsert
    \/ UpdateFollowing
    \/ UpdateFollowers
    \/ Signal
    \/ Disconnect

Spec == Init /\ [][Next]_vars

\* ------------------------------------------------------ counted ticks

\* A statement of the generator code, run by the thread that is in it.
Step ==
    \/ GetUserIds
    \/ Bootstrap
    \/ TweetNewUser
    \/ FollowNewUser
    \/ TweetBuild
    \/ TweetInsert
    \/ FollowSample
    \/ FollowCheck
    \/ FollowInsert
    \/ UpdateFollowing
    \/ UpdateFollowers

SchedNext ==
    \/ Connect
    \/ InitDatabase
    \/ SetupScheduler
    \/ CountedTick
    \/ Step
    \/ Signal
    \/ Disconnect

\* The program with its ticks counted.  Every statement sent to the store
\* returns or raises, and the thread then goes on to its next statement:
\* the steps of the generator code are weakly fair.
SchedSpec == Init /\ [][SchedNext]_vars /\ WF_vars(Step)

\* --------------------------------------------- init_database, repeated

\* The ordered pairs of distinct users.
Pairs == {p \in (DOMAIN users) \X (DOMAIN users) : p[1] # p[2]}

\* The process is about to call init_database on an open connection.  The
\* store is what earlier runs left: the tables an init_database created
\* before it raised, or the three tables with rows in them (rows whose
\* counter updates raised, so that the counters are those of create_user).
SchemaInit ==
    /\ main = "init_database"
    /\ sched = "new"
    /\ running = 0
    /\ conn = "open"
    /\ \E k \in 0..Len(CreateOrder) :
          tables = {CreateOrder[m] : m \in 1..k}
    /\ \E n \in 0..(IF tables = AllTables THEN MaxUsers ELSE 0) :
          /\ users \in [1..n -> Seeds]
          /\ user_seq = n + 1
    /\ \E k \in 0..(IF DOMAIN users # {} THEN MaxTweets ELSE 0) :
          /\ \E r \in [1..k -> 0..MaxTweets] :
                /\ \A m \in 1..k : r[m] < m
                /\ tweets = {[tweet_id |-> m, reply_to_tweet_id |-> r[m]] :
                                m \in 1..k}
          /\ tweet_seq = k + 1
    /\ \E k \in 0..(IF Pairs # {} THEN MaxFollows ELSE 0) :
          /\ \E p \in [1..k -> Pairs] :
                /\ \A a, b \in 1..k : a # b => p[a] # p[b]
                /\ follows = {[follow_id |-> m, follower_id |-> p[m][1],
                               following_id |-> p[m][2]] : m \in 1..k}
          /\ follow_seq = k + 1
    /\ seed = users
    /\ counted = {}
    /\ torn = {[follow_id |-> f.follow_id, column |-> "following_count"] :
                  f \in follows}
    /\ setup = [NoSetup EXCEPT !.connect = "ok"]
    /\ pc = "none"
    /\ kind = "none"
    /\ attempt = 0
    /\ user_ids = <<>>
    /\ tweet_data = NoTweet
    /\ follow_data = NoFollow
    /\ cyc = NoCycle
    /\ outcome = "none"
    /\ boot = NoBoot
    /\ count = NoCount

\* One more call of init_database; the caller does nothing else.
InitDatabaseAgain ==
    /\ main = "init_database"
    /\ \E n \in 0..Len(CreateOrder) :
          LET r == init_database(tables, n)
          IN  /\ tables' = r.tables
              /\ setup' = [setup EXCEPT
                              !.init_database = IF r.raised THEN "raised"
                                                ELSE "ok",
                              !.answered = n]
    /\ UNCHANGED <<main, sched, running, conn, users, tweets, follows,
                   user_seq, tweet_seq, follow_seq, pc, kind, attempt,
                   user_ids, tweet_data, follow_data, hist, cyc, outcome,
                   boot, count>>

SchemaNext == InitDatabaseAgain

SchemaSpec == SchemaInit /\ [][SchemaNext]_vars

\* ------------------------------------------------- mentions of a tweet

\* A tweet cycle is at line 70 of generate_tweet_data.  The cache holds any
\* ids of stored users, each once, in any order (the SELECT of get_user_ids
\* has no ORDER BY).
MentionInit ==
    /\ main = "scheduler_loop"
    /\ sched = "running"
    /\ running = 1
    /\ conn = "open"
    /\ tables = AllTables
    /\ \E n \in 1..MaxCache :
          /\ users \in [1..n -> Seeds]
          /\ user_seq = n + 1
          /\ \E k \in 1..n :
                user_ids \in {q \in [1..k -> 1..n] :
                                 \A a, b \in 1..k : a # b => q[a] # q[b]}
    /\ seed = users
    /\ tweets = {}
    /\ follows = {}
    /\ tweet_seq = 1
    /\ follow_seq = 1
    /\ pc = "tweet_build"
    /\ kind = "tweet"
    /\ attempt = 0
    /\ tweet_data = NoTweet
    /\ follow_data = NoFollow
    /\ counted = {}
    /\ cyc = NoCycle
    /\ outcome = "none"
    /\ boot = NoBoot
    /\ setup = [connect |-> "ok", init_database |-> "ok",
                answered |-> Len(CreateOrder)]
    /\ torn = {}
    /\ count = NoCount

\* generate_tweet_data lines 70 and 79-82: the author, whether the mention
\* branch is taken, and the mentions of the payload.
GenerateMentions ==
    /\ pc = "tweet_build"
    /\ \E a \in DOMAIN user_ids, taken \in BOOLEAN :
          \E ms \in IF taken THEN mentions(user_ids, user_ids[a])
                     ELSE {<<>>} :
             tweet_data' = [user_id  |-> user_ids[a],
                            mention  |-> taken,
                            mentions |-> ms]
    /\ pc' = "tweet_insert"
    /\ UNCHANGED <<main, sched, running, conn, store, kind, attempt,
                   user_ids, follow_data, hist, cyc, outcome, boot, setup,
                   count>>

MentionNext == GenerateMentions

MentionSpec == MentionInit /\ [][MentionNext]_vars

\* ------------------------------------------------------------ properties

Followers(u) == {f \in follows : f.following_id = u}

\* Every Follow row that targets u had both of its counter updates applied.
AllCounted(u) == \A f \in Followers(u) : f.follow_id \in counted

\* The Follow rows that have u as their source.
Following(u) == {f \in follows : f.follower_id = u}

\* The increments applied to the counters of u since its row was inserted.
FollowersApplied(u) == users[u].followers_count - seed[u].followers_count
FollowingApplied(u) == users[u].following_count - seed[u].following_count

\* The cycle that inserted f is between that INSERT and the end of its
\* counter updates.
InFlight(f) ==
    /\ pc \in {"update_following", "update_followers"}
    /\ f.follower_id = follow_data.follower_id
    /\ f.following_id = follow_data.following_id

\* A counter update of the cycle that inserted f raised.
Torn(f) == \E t \in torn : t.follow_id = f.follow_id

\* load_or_create_users has just returned to its caller.
LoadReturned ==
    /\ boot.done
    /\ \/ kind = "startup" /\ main = "setup_scheduler"
       \/ pc \in {"tweet_new_user", "follow_new_user"}

\* The cycle holds a Follow payload.
HasFollowPayload ==
    pc \in {"follow_check", "follow_insert", "update_following",
            "update_followers"}

\* C1: at every instant at most one execution of insert_random_data is in
\* progress, however the ticks are delivered.
C1_SingleFlight == running <= 1

\* A cycle is in the middle of its statements and a tick can be delivered.
C1_Witness == running = 1 /\ pc = "follow_insert" /\ ENABLED Tick

\* C2: follows holds at most one row for each ordered pair; a cycle whose
\* generated pair is already present issues no INSERT into follows, applies
\* no counter update and returns normally.
C2_OneRowPerPair ==
    /\ \A f, g \in follows :
          (f.follower_id = g.follower_id /\ f.following_id = g.following_id)
              => f = g
    /\ cyc.pair_present =>
          /\ ~cyc.follow_insert_tried
          /\ cyc.ins_follows = 0
          /\ cyc.updates = 0
          /\ pc = "none"
          /\ outcome = "returned"

\* A cycle generated a pair that had a row, the check answered, the cycle
\* is over.
C2_Witness ==
    cyc.pair_present /\ ~cyc.check_failed /\ follows # {} /\ pc = "none"

\* C3: every payload generate_follow_data returns has follower_id #
\* following_id, whatever the cache holds, and no row of follows has
\* follower_id = following_id.
C3_NoSelfFollow ==
    /\ HasFollowPayload => follow_data.follower_id # follow_data.following_id
    /\ \A f \in follows : f.follower_id # f.following_id

\* A payload has been returned from a cache that a create_user extended.
C3_Witness == pc = "follow_check" /\ cyc.ins_users > 0 /\ Len(user_ids) >= 2

\* C4 as stated: once the Follow rows that target a user have all had
\* their two counter updates, the user's followers_count is the number of
\* those rows.
C4_Original ==
    \A u \in DOMAIN users :
        (Followers(u) # {} /\ AllCounted(u)) =>
            users[u].followers_count = Cardinality(Followers(u))

\* C4 as amended: once every Follow row that targets a user has had its two
\* counter updates, the user's followers_count is the value its row was
\* inserted with plus the number of those rows.
C4_FollowersCount ==
    \A u \in DOMAIN users :
        AllCounted(u) =>
            users[u].followers_count =
                seed[u].followers_count + Cardinality(Followers(u))

\* A user has a Follow row whose two counter updates were applied.
C4_Witness ==
    \E u \in DOMAIN users : Followers(u) # {} /\ AllCounted(u) /\ pc = "none"

\* C5: when the existence check raises, the cycle issues no INSERT into
\* follows, applies no counter update and returns normally.
C5_FailedCheckSkips ==
    cyc.check_failed =>
        /\ ~cyc.follow_insert_tried
        /\ cyc.ins_follows = 0
        /\ cyc.updates = 0
        /\ pc = "none"
        /\ outcome = "returned"

\* The check raised for a pair that has no row, on an open connection.
C5_Witness ==
    cyc.check_failed /\ ~cyc.pair_present /\ conn = "open" /\ pc = "none"

\* C6: a tweet sent for insertion with a non-null reply_to_tweet_id names a
\* tweet that was in the table when the payload was generated, and every
\* stored reply names an earlier stored tweet.
C6_ReplyTargetExisted ==
    /\ (pc = "tweet_insert" /\ tweet_data.reply_to_tweet_id # None) =>
          tweet_data.reply_to_tweet_id \in tweet_data.at_generation
    /\ \A t \in tweets :
          t.reply_to_tweet_id # None =>
              \E p \in tweets : /\ p.tweet_id = t.reply_to_tweet_id
                                /\ p.tweet_id < t.tweet_id

\* A reply has been inserted.
C6_Witness == \E t \in tweets : t.reply_to_tweet_id # None

\* C7 as stated: load_or_create_users on a store without users creates
\* exactly the whole batch and leaves exactly those ids in the cache.
C7_Original ==
    (LoadReturned /\ boot.store_empty) =>
        /\ Cardinality(boot.created) = InitialUsers
        /\ Range(user_ids) = boot.created

\* C7 as amended: load_or_create_users on a store without users makes one
\* insertion per element of the batch, creates one row for each insertion
\* that succeeds (the whole batch when all succeed) and leaves exactly the
\* ids of the created rows in the cache.
C7_Bootstrap ==
    (LoadReturned /\ boot.store_empty) =>
        /\ Cardinality(boot.created) + boot.failed = InitialUsers
        /\ Range(user_ids) = boot.created
        /\ Len(user_ids) = Cardinality(boot.created)
        /\ DOMAIN users = boot.created

\* A batch in which one insertion succeeded and another failed.
C7_Witness ==
    LoadReturned /\ boot.store_empty /\ boot.failed > 0 /\ boot.created # {}

\* C8: insert_random_data always returns normally.
C8_NothingPropagates == outcome # "raised"

\* A tweet cycle is over whose random.choice found the cache empty.
C8_Witness ==
    pc = "none" /\ kind = "tweet" /\ outcome = "returned" /\ user_ids = <<>>

\* C9 as stated: no cycle inserts both a tweet row and a follow row, and no
\* cycle inserts a user row in addition to a tweet or a follow row.
C9_Original ==
    /\ ~(cyc.ins_tweets > 0 /\ cyc.ins_follows > 0)
    /\ ~(cyc.ins_users > 0 /\ (cyc.ins_tweets > 0 \/ cyc.ins_follows > 0))

\* C9 as amended: a cycle is a tweet cycle or a follow cycle; it inserts at
\* most one tweet row or at most one follow row, never both, and besides
\* at most the batch of load_or_create_users and one more user row.
C9_OneEventPerCycle ==
    /\ cyc.ins_tweets + cyc.ins_follows <= 1
    /\ kind = "tweet" => cyc.ins_follows = 0
    /\ kind = "follow" => cyc.ins_tweets = 0
    /\ cyc.ins_users <= InitialUsers + 1

\* A cycle has inserted a user row and a tweet row.
C9_Witness == cyc.ins_users > 0 /\ cyc.ins_tweets > 0

\* C10: no step removes or changes a row of tweets or follows or removes a
\* row of users; a step that changes a row of users adds 1 to the
\* following_count of the follower or to the followers_count of the
\* followee of the Follow row that this cycle has inserted.
C10_Frame ==
    [][/\ tweets \subseteq tweets'
       /\ follows \subseteq follows'
       /\ DOMAIN users \subseteq DOMAIN users'
       /\ \A u \in DOMAIN users :
             users'[u] # users[u] =>
                /\ cyc.ins_follows = 1
                /\ \/ /\ u = follow_data.follower_id
                      /\ users'[u] =
                            [users[u] EXCEPT !.following_count = @ + 1]
                   \/ /\ u = follow_data.following_id
                      /\ users'[u] =
                            [users[u] EXCEPT !.followers_count = @ + 1]]_vars

\* A cycle has applied both counter updates.
C10_Witness == cyc.updates = 2 /\ pc = "none"

\* C11: the scheduler is started, and a cycle runs, only after connect and
\* init_database have both succeeded; once either of them has raised, the
\* process has exited with the scheduler never started and no cycle run.
C11_NoCycleBeforeSetup ==
    /\ (sched # "new" \/ running > 0 \/ kind \in {"tweet", "follow"}) =>
          /\ setup.connect = "ok"
          /\ setup.init_database = "ok"
          /\ tables = AllTables
    /\ (setup.connect = "raised" \/ setup.init_database = "raised") =>
          /\ main = "exited"
          /\ sched = "new"
          /\ running = 0
          /\ kind \notin {"tweet", "follow"}
          /\ pc = "none"

\* connect succeeded, init_database raised after creating a table, and the
\* process is over.
C11_Witness ==
    /\ setup.connect = "ok"
    /\ setup.init_database = "raised"
    /\ setup.answered > 0
    /\ main = "exited"

\* C12: a cycle starts only while the scheduler is running, and a scheduler
\* told to stop stays stopped; the step that closes the connection is taken
\* with the scheduler no longer running, and it is taken whether or not a
\* cycle is in flight.
C12_StopThenClose ==
    [][/\ running' > running => (sched = "running" /\ sched' = "running")
       /\ sched = "shutdown" => sched' = "shutdown"
       /\ (conn # "closed" /\ conn' = "closed") =>
             (sched # "running" /\ sched' # "running")
       /\ (conn' = "closed" /\ sched' # "new") => sched' = "shutdown"
       /\ main = "disconnect" => ENABLED Disconnect]_vars

\* The connection is closed, the scheduler was told to stop, and a cycle is
\* still in the middle of its statements.
C12_Witness ==
    conn = "closed" /\ sched = "shutdown" /\ running = 1 /\ pc # "none"

\* C14: self.user_ids never holds the same id at two positions.
C14_NoDuplicateIds ==
    \A a, b \in DOMAIN user_ids : a # b => user_ids[a] # user_ids[b]

\* A cycle has loaded the cache from a store that had users and has then
\* appended the id of a user it created.
C14_Witness ==
    /\ boot.done
    /\ ~boot.store_empty
    /\ ~boot.load_failed
    /\ cyc.ins_users > 0
    /\ Len(user_ids) >= 2

\* C15: a call of init_database on a store where the three tables exist
\* leaves the tables and every row as they were, and it raises only when
\* the store failed one of its statements.
C15_Idempotent ==
    [][tables = AllTables =>
          /\ tables' = tables
          /\ UNCHANGED <<users, tweets, follows, user_seq, tweet_seq,
                         follow_seq>>
          /\ setup'.answered = Len(CreateOrder) =>
                setup'.init_database = "ok"]_vars

\* init_database has returned normally on a store that had the three
\* tables and rows in each of them.
C15_Witness ==
    /\ setup.init_database = "ok"
    /\ tables = AllTables
    /\ DOMAIN users # {}
    /\ tweets # {}
    /\ follows # {}

\* C16: a tick delivered while a cycle runs changes nothing; a cycle starts
\* only in the step of a tick delivered with the slot idle, and none starts
\* in the step that ends a cycle; so the cycles started never outnumber the
\* ticks delivered with the slot idle.
C16_DroppedNotQueued ==
    /\ [](count.started <= count.idle)
    /\ [][/\ count'.busy # count.busy =>
             UNCHANGED <<main, sched, running, conn, store, pc, kind,
                         attempt, user_ids, tweet_data, follow_data, hist,
                         cyc, outcome, boot, setup>>
          /\ running' > running =>
                /\ running = 0
                /\ count'.idle = count.idle + 1
                /\ count'.started = count.started + 1
          /\ (outcome' # outcome /\ outcome' # "none") =>
                (pc' = "none" /\ running' = 0)
          /\ (pc = "none" /\ pc' # "none" /\ kind' # "startup") =>
                count'.idle = count.idle + 1]_vars

\* A tick was dropped while the only cycle ran, and that cycle is over.
C16_Witness ==
    /\ count.busy > 0
    /\ count.idle = 1
    /\ count.started = 1
    /\ running = 0
    /\ pc = "none"
    /\ sched = "running"

\* C17: a cycle that has started completes and frees the slot, and every
\* tick delivered with the slot idle starts a cycle, whatever the cycle
\* before it did.
C17_CycleCompletes ==
    /\ (running > 0) ~> (running = 0)
    /\ [][count'.idle # count.idle =>
             (running' = running + 1 /\ pc' # "none")]_vars

\* A cycle runs after a cycle in which a counter update raised.
C17_Witness == torn # {} /\ count.started = 2 /\ running = 1 /\ pc # "none"

\* C18: load_or_create_users inserts bootstrap users only when the users
\* table had no row when it ran, also when its query for the ids raised.
C18_BootstrapOnlyOnEmptyStore == boot.created # {} => boot.store_empty

\* C19 as stated: the increments applied to a user's followers_count
\* (following_count) never outnumber the Follow rows that target it (that
\* it is the source of), and they are fewer only after a cycle whose Follow
\* insert succeeded and one of whose counter updates raised.
C19_Original ==
    \A u \in DOMAIN users :
        LET targets == Cardinality(Followers(u))
            sources == Cardinality(Following(u))
        IN  /\ FollowersApplied(u) <= targets
            /\ FollowingApplied(u) <= sources
            /\ FollowersApplied(u) < targets =>
                  \E f \in Followers(u) : Torn(f)
            /\ FollowingApplied(u) < sources =>
                  \E f \in Following(u) : Torn(f)

\* C19 as amended: the increments never outnumber the rows, and they are
\* fewer only while the cycle that inserted a row has not yet applied that
\* counter's update, or after a cycle whose Follow insert succeeded and
\* whose update of that counter, or an earlier one, raised.
C19_UnderIncrement ==
    \A u \in DOMAIN users :
        LET targets == Cardinality(Followers(u))
            sources == Cardinality(Following(u))
        IN  /\ FollowersApplied(u) <= targets
            /\ FollowingApplied(u) <= sources
            /\ FollowersApplied(u) < targets =>
                  \E f \in Followers(u) : Torn(f) \/ InFlight(f)
            /\ FollowingApplied(u) < sources =>
                  \E f \in Following(u) :
                      \/ [follow_id |-> f.follow_id,
                          column |-> "following_count"] \in torn
                      \/ InFlight(f) /\ pc = "update_following"

\* A cycle inserted a Follow row and applied the follower's update, the
\* followee's update raised, and the cycle is over.
C19_Witness ==
    /\ pc = "none"
    /\ \E f \in follows :
          /\ [follow_id |-> f.follow_id, column |-> "followers_count"]
                \in torn
          /\ FollowingApplied(f.follower_id) = 1
          /\ FollowersApplied(f.following_id) = 0

\* C20: a payload generated on the reply branch when tweets was empty, or
\* when the lookup raised, has a null reply_to_tweet_id and meets the
\* constraints of the tweets table; the step that stores it adds a
\* top-level tweet; generate_tweet_data is left by an exception only when
\* the cache is empty.
C20_NoReplyTarget ==
    /\ [](pc = "tweet_insert" =>
            /\ tweet_data.at_generation = TweetIds
            /\ (/\ tweet_data.lookup # "skipped"
                /\ (tweets = {} \/ tweet_data.lookup = "raised")) =>
                  /\ tweet_data.reply_to_tweet_id = None
                  /\ TweetConstraints(tweet_data))
    /\ [][/\ (/\ pc = "tweet_insert"
              /\ tweet_data.lookup # "skipped"
              /\ (tweets = {} \/ tweet_data.lookup = "raised")
              /\ tweets' # tweets) =>
                \E t \in tweets' \ tweets : t.reply_to_tweet_id = None
          /\ (pc = "tweet_build" /\ pc' \notin {pc, "tweet_insert"}) =>
                user_ids = <<>>]_vars

\* The reply branch was taken with no tweet stored, the lookup answered,
\* and the payload is about to be inserted on an open connection.
C20_Witness ==
    /\ pc = "tweet_insert"
    /\ tweet_data.lookup = "answered"
    /\ tweets = {}
    /\ conn = "open"

\* C21 as stated: when the mention branch is taken the payload has one or
\* two mentions, each the token of an id of the cache that is not the
\* author.
C21_Original ==
    (pc = "tweet_insert" /\ tweet_data.mention) =>
        /\ Len(tweet_data.mentions) \in 1..2
        /\ \A n \in DOMAIN tweet_data.mentions :
              \E uid \in Range(user_ids) \ {tweet_data.user_id} :
                  tweet_data.mentions[n] = Token(uid)

\* C21 as amended: when the mention branch is taken the payload has at most
\* two mentions, each the token of an id of the cache that is not the
\* author and no two alike; it has at least one when the cache holds two
\* ids or more, and none when the cache holds the author alone.
C21_Mentions ==
    (pc = "tweet_insert" /\ tweet_data.mention) =>
        /\ Len(tweet_data.mentions) <= 2
        /\ \A n \in DOMAIN tweet_data.mentions :
              \E uid \in Range(user_ids) \ {tweet_data.user_id} :
                  tweet_data.mentions[n] = Token(uid)
        /\ \A a, b \in DOMAIN tweet_data.mentions :
              a # b => tweet_data.mentions[a] # tweet_data.mentions[b]
        /\ Len(user_ids) >= 2 => Len(tweet_data.mentions) >= 1
        /\ Len(user_ids) = 1 => tweet_data.mentions = <<>>

\* The branch was taken with the author among the two ids sampled from a
\* cache of three or more: one mention is left.
C21_Witness ==
    /\ pc = "tweet_insert"
    /\ tweet_data.mention
    /\ Len(user_ids) >= 3
    /\ Len(tweet_data.mentions) = 1

\* C22: every id in self.user_ids is the id of a row of users, and so are
\* the author of a tweet payload sent for insertion and the two ids of a
\* follow payload and of every stored Follow row; outside the reload of
\* the cache, a step that adds no row to users leaves the cache as it was,
\* and a step that adds one appends its id.
C22_CacheIdsExist ==
    /\ [](/\ Range(user_ids) \subseteq DOMAIN users
          /\ pc = "tweet_insert" => tweet_data.user_id \in DOMAIN users
          /\ HasFollowPayload =>
                /\ follow_data.follower_id \in DOMAIN users
                /\ follow_data.following_id \in DOMAIN users
          /\ \A f \in follows : /\ f.follower_id \in DOMAIN users
                                 /\ f.following_id \in DOMAIN users)
    /\ [][pc # "get_user_ids" =>
             user_ids' = user_ids \o
                 Ascending(DOMAIN users' \ DOMAIN users)]_vars

\* An insertion of the bootstrap batch failed, another succeeded, and a
\* tweet payload has an author from the cache.
C22_Witness ==
    /\ pc = "tweet_insert"
    /\ boot.failed > 0
    /\ boot.created # {}
    /\ tweet_data.user_id \in Range(user_ids)

====
